---- MODULE Spec2Model ----
(***************************************************************************)
(* Model of src/main.py: a FastAPI front-end over yt-dlp.                  *)
(*                                                                         *)
(* Strings are modelled as sequences of tokens.  A URL is a sequence over  *)
(* UrlTokens, so that `x in url` is "some element equals x" and            *)
(* str.split(sep) cuts the sequence at the elements equal to sep.  A video *)
(* identifier is such a sequence too (a piece of a URL, or what the        *)
(* extraction engine reports).  An error text is a sequence over           *)
(* ErrTokens.  The ledger file is a sequence of JSON tokens.               *)
(*                                                                         *)
(* Percentages are kept in hundredths of a percent (5000 is 50.00), which  *)
(* is what round(x, 2) can tell apart.                                     *)
(***************************************************************************)
EXTENDS Integers, Sequences, FiniteSets, TLC

(***************************************************************************)
(* Bounds of the model.                                                    *)
(***************************************************************************)
MaxTasks == 2       \* download requests accepted in one behaviour
MaxUpserts == 2     \* save_video_info calls in one behaviour of SpecStore
MaxUrlLen == 3      \* tokens of a URL in SpecUrl
MaxErrLen == 2      \* tokens of an error text in SpecErr and SpecFail
MaxFormats == 4     \* formats the engine reports in SpecFormats
MaxBytes == 3       \* byte counts of a progress tick
MaxDate == 2        \* distinct values of datetime.now() at second precision

VARIABLES
    download_progress,  \* main.py:38, the ProgressTable: video id -> entry
    ledger,             \* the file VIDEOS_INFO_FILE (main.py:41) on disk
    tasks,              \* the background tasks: download_video / save_video_info coroutines
    listing,            \* the get_formats requests that await the engine
    response            \* the response of the request handler that returned last

vars == <<download_progress, ledger, tasks, listing, response>>

Min(a, b) == IF a < b THEN a ELSE b
Max(a, b) == IF a > b THEN a ELSE b

(***************************************************************************)
(* Strings as token sequences.                                             *)
(***************************************************************************)
UrlTokens == {"youtube.com", "youtu.be", "v=", "&", "/", "?", "A", "B"}

\* `tok in s`
Contains(s, tok) == \E i \in 1..Len(s) : s[i] = tok

\* s.split(sep)[-1]: what follows the last sep, all of s when there is none
SplitLast(s, sep) ==
    LET cuts == {i \in 1..Len(s) : s[i] = sep}
        from == IF cuts = {} THEN 1 ELSE 1 + CHOOSE i \in cuts : \A j \in cuts : j <= i
    IN  SubSeq(s, from, Len(s))

\* s.split(sep)[0]: what precedes the first sep, all of s when there is none
SplitFirst(s, sep) ==
    LET cuts == {i \in 1..Len(s) : s[i] = sep}
        upto == IF cuts = {} THEN Len(s) ELSE (CHOOSE i \in cuts : \A j \in cuts : i <= j) - 1
    IN  SubSeq(s, 1, upto)

Unknown == <<"unknown">>

\* all sequences over S of length at most n
RECURSIVE SeqsUpTo(_, _)
SeqsUpTo(S, n) ==
    IF n = 0 THEN {<<>>}
    ELSE LET shorter == SeqsUpTo(S, n - 1)
         IN  shorter \cup {Append(s, x) : s \in {t \in shorter : Len(t) = n - 1}, x \in S}

(***************************************************************************)
(* Request validation and the identifier guessed from the URL string.      *)
(***************************************************************************)
\* the check without its domain test
InvalidUrl_empty_only(url) == url = <<>>

\* main.py:259 and :273, `not url or not any(domain in url for domain in [...])`
InvalidUrl(url) ==
    \/ url = <<>>
    \/ ~(\E domain \in {"youtube.com", "youtu.be"} : Contains(url, domain))

\* the video_id without the cut at '&' and at '?'
url_video_id_uncut(url) ==
    IF Contains(url, "youtube.com") /\ Contains(url, "v=")
    THEN SplitLast(url, "v=")
    ELSE IF Contains(url, "youtu.be")
         THEN SplitLast(url, "/")
         ELSE Unknown

\* main.py:277-282, the video_id of the download endpoint
url_video_id(url) ==
    IF Contains(url, "youtube.com") /\ Contains(url, "v=")
    THEN SplitFirst(SplitLast(url, "v="), "&")
    ELSE IF Contains(url, "youtu.be")
         THEN SplitFirst(SplitLast(url, "/"), "?")
         ELSE Unknown

\* main.py:213, the video_id of the failure handler of download_video
error_video_id(url) ==
    IF Contains(url, "v=") THEN SplitFirst(SplitLast(url, "v="), "&") ELSE Unknown

(***************************************************************************)
(* The ledger file.  json.dumps writes a list of objects; the file holds   *)
(* the tokens of that text: "[", one token per record, "]".  A byte that   *)
(* no write has filled (a hole past the end of a truncated file) is "nul". *)
(***************************************************************************)
LB == [k |-> "[", v |-> <<>>]
RB == [k |-> "]", v |-> <<>>]
NUL == [k |-> "nul", v |-> <<>>]
Obj(r) == [k |-> "obj", v |-> <<r>>]

\* main.py:75, json.dumps([v.model_dump() for v in videos], ...)
json_dumps(videos) == <<LB>> \o [i \in 1..Len(videos) |-> Obj(videos[i])] \o <<RB>>

\* does json.load accept the text, as a list of objects (main.py:61-62)
json_ok(data) ==
    /\ Len(data) >= 2
    /\ data[1] = LB
    /\ data[Len(data)] = RB
    /\ \A i \in 2..(Len(data) - 1) : data[i].k = "obj"

\* a load that takes every record it finds in the file, whatever surrounds it
load_videos_info_lenient(file) ==
    IF ~file.exists THEN <<>>
    ELSE LET objs == SelectSeq(file.data, LAMBDA t : t.k = "obj")
         IN  [i \in 1..Len(objs) |-> objs[i].v[1]]

\* main.py:56-65
load_videos_info(file) ==
    IF ~file.exists THEN <<>>
    ELSE IF json_ok(file.data)
         THEN [i \in 1..(Len(file.data) - 2) |-> file.data[i + 1].v[1]]
         ELSE <<>>      \* the except branch: every parse failure gives []

\* a write of chunk at offset pos of a file that holds data
WriteAt(data, pos, chunk) ==
    [i \in 1..Max(Len(data), pos + Len(chunk)) |->
        IF i > pos /\ i <= pos + Len(chunk) THEN chunk[i - pos]
        ELSE IF i <= Len(data) THEN data[i]
        ELSE NUL]

\* save_video_info without the removal of main.py:71
upserted_no_removal(loaded, video_info) == Append(loaded, video_info)

\* save_video_info with the test of main.py:71 inverted
upserted_inverted(loaded, video_info) ==
    LET Same(v) == v.id = video_info.id
    IN  Append(SelectSeq(loaded, Same), video_info)

\* save_video_info that leaves a ledger alone that has the id already
upserted_first_wins(loaded, video_info) ==
    IF \E i \in 1..Len(loaded) : loaded[i].id = video_info.id
    THEN loaded
    ELSE Append(loaded, video_info)

\* main.py:69-72, the list save_video_info writes, from the list it loaded
upserted(loaded, video_info) ==
    LET Other(v) == v.id # video_info.id
    IN  Append(SelectSeq(loaded, Other), video_info)

(***************************************************************************)
(* Optional values of the engine's dictionaries: a key may be missing, or  *)
(* present with the value None, or present with a value.                   *)
(***************************************************************************)
Absent == [tag |-> "absent"]
None == [tag |-> "none"]
Some(x) == [tag |-> "some", x |-> x]

\* dict.get(key, default)
Get(field, default) == IF field = Absent THEN Some(default) ELSE field

\* the truth value Python gives an Optional number
Truthy(o) == o.tag = "some" /\ o.x # 0

(***************************************************************************)
(* progress_hook (main.py:78-98).                                          *)
(***************************************************************************)
\* the percentage cut after two decimals instead of rounded
Percent2_truncated(downloaded, total) == (downloaded * 10000) \div total

\* round(downloaded / total * 100, 2) in hundredths of a percent; a tie goes
\* to the even neighbour, as round() does on a value the float holds exactly
Percent2(downloaded, total) ==
    LET q == (downloaded * 10000) \div total
        r == (downloaded * 10000) % total
    IN  IF 2 * r > total \/ (2 * r = total /\ q % 2 = 1) THEN q + 1 ELSE q

Hundred == 10000    \* 'progress': 100

\* main.py:79
hook_video_id(d) == IF d.info_id = Absent THEN Unknown ELSE d.info_id.x

\* main.py:83, `d.get('total_bytes') or d.get('total_bytes_estimate', 0)`
hook_total(d) ==
    IF Truthy(d.total_bytes) THEN d.total_bytes
    ELSE Get(d.total_bytes_estimate, 0)

\* main.py:85, `total > 0` raises TypeError when total is None
hook_raises(d) == d.status = "downloading" /\ hook_total(d) = None

\* the table after progress_hook(d) returned
progress_hook(table, d) ==
    LET video_id == hook_video_id(d)
        total == hook_total(d)
    IN  IF d.status = "downloading"
        THEN IF total.x > 0
             THEN [k \in DOMAIN table \cup {video_id} |->
                     IF k = video_id
                     THEN [progress |-> Percent2(d.downloaded_bytes, total.x),
                           speed |-> d.speed,
                           eta |-> d.eta,
                           status |-> "downloading"]
                     ELSE table[k]]
             ELSE table
        ELSE IF d.status = "finished"
             THEN [k \in DOMAIN table \cup {video_id} |->
                     IF k = video_id
                     THEN [progress |-> Hundred, status |-> "finished"]
                     ELSE table[k]]
             ELSE table

\* the text of the TypeError of main.py:85
TypeErrorText == <<"'>' not supported between instances of 'NoneType' and 'int'">>

(***************************************************************************)
(* The failure handler's message table (main.py:214-236).                  *)
(***************************************************************************)
ErrTokens ==
    {"HTTP Error 429", "HTTP Error 403", "HTTP Error 404",
     "Unable to download API page", "timed out", "Timed Out", "WinError 10060",
     "This video is unavailable", "Video unavailable", "Sign in",
     "The uploader has not made this video available",
     "socket", "Socket", "network", "DNS", "dns", "other"}

\* str.lower() of one token
Lower(tok) ==
    CASE tok = "Timed Out" -> "timed out"
      [] tok = "Socket" -> "socket"
      [] tok = "DNS" -> "dns"
      [] tok = "Sign in" -> "sign in"
      [] tok = "Video unavailable" -> "video unavailable"
      [] OTHER -> tok

\* `x in error_message.lower()`
ContainsLower(s, tok) == \E i \in 1..Len(s) : Lower(s[i]) = tok

\* the table with the DNS rule tried first
friendly_error_dns_first(error_message) ==
    IF Contains(error_message, "DNS") THEN <<"DNS failure">>
    ELSE IF Contains(error_message, "HTTP Error 429") THEN <<"rate limited">>
    ELSE error_message

\* main.py:217-236
friendly_error(error_message) ==
    IF Contains(error_message, "HTTP Error 429") THEN <<"rate limited">>
    ELSE IF Contains(error_message, "HTTP Error 403") THEN <<"access denied">>
    ELSE IF Contains(error_message, "HTTP Error 404") THEN <<"video missing">>
    ELSE IF \/ Contains(error_message, "Unable to download API page")
            \/ ContainsLower(error_message, "timed out")
            \/ Contains(error_message, "WinError 10060") THEN <<"network timeout">>
    ELSE IF Contains(error_message, "This video is unavailable") THEN <<"unavailable, private or deleted">>
    ELSE IF Contains(error_message, "Video unavailable") THEN <<"unavailable, deleted or private">>
    ELSE IF Contains(error_message, "Sign in") THEN <<"login required">>
    ELSE IF Contains(error_message, "The uploader has not made this video available")
         THEN <<"not available in your country">>
    ELSE IF ContainsLower(error_message, "socket") \/ ContainsLower(error_message, "network")
         THEN <<"unstable connection">>
    ELSE IF Contains(error_message, "DNS") THEN <<"DNS failure">>
    ELSE error_message

\* an error entry that keeps the mapped message in place of the raw text
error_entry_mapped_twice(e) ==
    [progress |-> 0, status |-> "error", error |-> friendly_error(e),
     original_error |-> friendly_error(e)]

\* main.py:238-243
error_entry(e) ==
    [progress |-> 0, status |-> "error", error |-> friendly_error(e), original_error |-> e]

(***************************************************************************)
(* get_video_formats (main.py:101-144).  A resolution label is a token     *)
(* sequence: <<"1280", "x", "720">>, <<"720", "p">>, <<"unknown">>.        *)
(***************************************************************************)
Digits == {"480", "720", "1080", "1280", "1920"}

\* int(s) of a decimal string
IntOf(tok) ==
    CASE tok = "480" -> 480
      [] tok = "720" -> 720
      [] tok = "1080" -> 1080
      [] tok = "1280" -> 1280
      [] tok = "1920" -> 1920

\* int(s) raises ValueError
int_raises(s) == ~(Len(s) = 1 /\ s[1] \in Digits)

\* s.split('x')[1], for s that contains 'x'
SplitSecond(s, sep) ==
    LET first == CHOOSE i \in 1..Len(s) : s[i] = sep /\ \A j \in 1..(i - 1) : s[j] # sep
    IN  SplitFirst(SubSeq(s, first + 1, Len(s)), sep)

\* s.rstrip('p')
RECURSIVE RStrip(_, _)
RStrip(s, tok) ==
    IF s # <<>> /\ s[Len(s)] = tok THEN RStrip(SubSeq(s, 1, Len(s) - 1), tok) ELSE s

\* main.py:118, the formats that carry video
has_video(f) == f.vcodec # Some("none") /\ f.resolution # Some(<<"audio only">>)

\* main.py:119-127
format_info(f) ==
    [format_id |-> f.format_id,
     resolution |-> Get(f.resolution, <<"unknown">>),
     ext |-> "mp4", fps |-> 0, filesize |-> 0, format_note |-> "",
     vcodec |-> Get(f.vcodec, "")]

\* the digits the sort key of main.py:131-135 hands to int()
key_text(x) ==
    IF Contains(x.resolution.x, "x") THEN SplitSecond(x.resolution.x, "x")
    ELSE RStrip(x.resolution.x, "p")

\* the sort key raises: `'x' in None` (TypeError) or int() of a non-number (ValueError)
key_raises(x) ==
    \/ x.resolution = None
    \/ x.resolution # Some(<<"unknown">>) /\ int_raises(key_text(x))

\* main.py:131-135, the sort key
sort_key(x) == IF x.resolution = Some(<<"unknown">>) THEN 0 ELSE IntOf(key_text(x)[1])

\* a descending sort that puts a format before the formats of its key
RECURSIVE sort_reverse_unstable(_)
sort_reverse_unstable(formats) ==
    IF formats = <<>> THEN <<>>
    ELSE LET n == Len(formats)
             last == formats[n]
             done == sort_reverse_unstable(SubSeq(formats, 1, n - 1))
             ahead == {i \in 1..Len(done) : sort_key(done[i]) > sort_key(last)}
             at == Cardinality(ahead)
         IN  SubSeq(done, 1, at) \o <<last>> \o SubSeq(done, at + 1, Len(done))

\* list.sort(key=..., reverse=True): descending, equal keys keep their order
RECURSIVE sort_reverse(_)
sort_reverse(formats) ==
    IF formats = <<>> THEN <<>>
    ELSE LET n == Len(formats)
             last == formats[n]
             done == sort_reverse(SubSeq(formats, 1, n - 1))
             ahead == {i \in 1..Len(done) : sort_key(done[i]) >= sort_key(last)}
             at == Cardinality(ahead)
         IN  SubSeq(done, 1, at) \o <<last>> \o SubSeq(done, at + 1, Len(done))

ValueErrorText == <<"invalid literal for int()">>

\* main.py:110-144, from what extract_info returned
get_video_formats(info) ==
    LET formats == [i \in 1..Len(SelectSeq(info.formats, has_video)) |->
                        format_info(SelectSeq(info.formats, has_video)[i])]
    IN  IF \E i \in 1..Len(formats) : key_raises(formats[i])
        THEN [error |-> ValueErrorText]
        ELSE [id |-> info.id, title |-> info.title, formats |-> sort_reverse(formats)]

(***************************************************************************)
(* VideoInfo (main.py:44-53) and what download_video builds it from.       *)
(***************************************************************************)
DescLimit == 500    \* main.py:202, description[:500]

\* main.py:192-207.  info['id'], info['title'] and info['ext'] are present
\* here (a missing one is a KeyError); a description is its length.
build_video_info(info, file_size, now) ==
    [id |-> info.id.x,
     title |-> info.title,
     duration |-> Get(info.duration, 0).x,
     author |-> Get(info.uploader, "Unknown").x,
     description |-> Min(Get(info.description, 0).x, DescLimit),
     file_size |-> file_size,
     file_path |-> <<"/downloads/", info.title, "-", info.id.x, ".", info.ext>>,
     thumbnail |-> Get(info.thumbnail, "").x,
     download_date |-> now]

\* main.py:179, info.get('id', 'unknown')
info_video_id(info) == Get(info.id, Unknown).x

(***************************************************************************)
(* The state machine.  A task is a coroutine that runs in the background:  *)
(* download_video, which calls save_video_info, or (in SpecStore) a bare   *)
(* save_video_info call.  pc is the await the coroutine is suspended at.   *)
(***************************************************************************)

\* the task awaits nothing any more
ended(t) == t.pc \in {"returned", "failed", "raised"}


Put(table, key, entry) ==
    [k \in DOMAIN table \cup {key} |-> IF k = key THEN entry ELSE table[k]]

SetTask(i, t) == tasks' = [tasks EXCEPT ![i] = t]

Init ==
    /\ download_progress = <<>>                     \* main.py:38, {}
    /\ ledger = [exists |-> FALSE, data |-> <<>>]   \* no videos_info.json yet
    /\ tasks = <<>>
    /\ listing = {}
    /\ response = [status |-> "none"]

\* GET / (main.py:248-254)
read_root ==
    /\ response' = [page |-> "index.html", videos |-> load_videos_info(ledger)]
    /\ UNCHANGED <<download_progress, ledger, tasks, listing>>

\* a listing that also writes the list it read back to the file
get_videos_rewriting ==
    /\ response' = [videos |-> load_videos_info(ledger)]
    /\ ledger' = [exists |-> TRUE, data |-> json_dumps(load_videos_info(ledger))]
    /\ UNCHANGED <<download_progress, tasks, listing>>

\* GET /videos/ (main.py:304-307)
get_videos ==
    /\ response' = [videos |-> load_videos_info(ledger)]
    /\ UNCHANGED <<download_progress, ledger, tasks, listing>>

\* GET /progress/{video_id} (main.py:298-302), the value returned
progress_of(table, video_id) ==
    IF video_id \in DOMAIN table THEN table[video_id] ELSE [status |-> "not_found"]

get_progress(video_id) ==
    /\ response' = progress_of(download_progress, video_id)
    /\ UNCHANGED <<download_progress, ledger, tasks, listing>>

InvalidUrlResponse == [status |-> "error", message |-> <<"invalid url">>]
UnknownIdResponse == [status |-> "error", message |-> <<"unknown video id">>]

\* GET /video-formats/ up to its await (main.py:256-263)
get_formats(url) ==
    /\ IF InvalidUrl(url)
       THEN /\ response' = InvalidUrlResponse
            /\ UNCHANGED listing
       ELSE /\ listing' = listing \cup {url}    \* extract_info runs in the executor
            /\ UNCHANGED response
    /\ UNCHANGED <<download_progress, ledger, tasks>>

\* GET /video-formats/ after extract_info returned info (main.py:112-141, 265-268)
formats_return(url, info) ==
    /\ url \in listing
    /\ listing' = listing \ {url}
    /\ LET formats_info == get_video_formats(info)
       IN  response' = IF "error" \in DOMAIN formats_info
                       THEN [status |-> "error", message |-> formats_info.error]
                       ELSE [status |-> "success", data |-> formats_info]
    /\ UNCHANGED <<download_progress, ledger, tasks>>

\* GET /video-formats/ after extract_info raised e (main.py:142-144, 265-266)
formats_fail(url, e) ==
    /\ url \in listing
    /\ listing' = listing \ {url}
    /\ response' = [status |-> "error", message |-> e]
    /\ UNCHANGED <<download_progress, ledger, tasks>>

\* the task that background_tasks.add_task(download_video, url, format_id) adds
download_task(url) ==
    [kind |-> "download", pc |-> "resolve", url |-> url, info |-> <<>>,
     video_info |-> <<>>, loaded |-> <<>>, videos |-> <<>>, pos |-> 0]

\* POST /download/ (main.py:270-296)
download(url) ==
    IF InvalidUrl(url)
    THEN /\ response' = InvalidUrlResponse
         /\ UNCHANGED <<download_progress, ledger, tasks, listing>>
    ELSE IF url_video_id(url) = Unknown
    THEN /\ response' = UnknownIdResponse
         /\ UNCHANGED <<download_progress, ledger, tasks, listing>>
    ELSE /\ Len(tasks) < MaxTasks
         /\ download_progress' =
                Put(download_progress, url_video_id(url), [progress |-> 0, status |-> "queued"])
         /\ tasks' = Append(tasks, download_task(url))
         /\ response' = [status |-> "success", message |-> <<"Download started">>,
                         video_id |-> url_video_id(url)]
         /\ UNCHANGED <<ledger, listing>>

(***************************************************************************)
(* download_video (main.py:147-245), one action per resumption.            *)
(***************************************************************************)
\* main.py:212-245, the except branch: the task ends and returns None
failure(i, e) ==
    /\ download_progress' =
           Put(download_progress, error_video_id(tasks[i].url), error_entry(e))
    /\ SetTask(i, [tasks[i] EXCEPT !.pc = "failed"])

\* main.py:178-189: the first extract_info returned info
resolve_return(i, info) ==
    /\ i \in 1..Len(tasks)
    /\ tasks[i].pc = "resolve"
    /\ download_progress' =
           Put(download_progress, info_video_id(info), [progress |-> 0, status |-> "starting"])
    /\ SetTask(i, [tasks[i] EXCEPT !.pc = "download", !.info = <<info>>])
    /\ UNCHANGED <<ledger, listing, response>>

\* main.py:178: the first extract_info raised e
resolve_raise(i, e) ==
    /\ i \in 1..Len(tasks)
    /\ tasks[i].pc = "resolve"
    /\ failure(i, e)
    /\ UNCHANGED <<ledger, listing, response>>

\* the engine calls progress_hook(d) during the second extract_info (main.py:189)
hook_call(i, d) ==
    /\ i \in 1..Len(tasks)
    /\ tasks[i].pc = "download"
    /\ ~hook_raises(d)
    /\ download_progress' = progress_hook(download_progress, d)
    /\ UNCHANGED <<ledger, tasks, listing, response>>

\* progress_hook(d) raised inside the second extract_info, which passes it on
hook_raise(i, d) ==
    /\ i \in 1..Len(tasks)
    /\ tasks[i].pc = "download"
    /\ hook_raises(d)
    /\ failure(i, TypeErrorText)
    /\ UNCHANGED <<ledger, listing, response>>

\* main.py:189: the second extract_info raised e
download_raise(i, e) ==
    /\ i \in 1..Len(tasks)
    /\ tasks[i].pc = "download"
    /\ failure(i, e)
    /\ UNCHANGED <<ledger, listing, response>>

\* main.py:192-207: the download returned, and building the record raised e
\* (a KeyError of info['id'], os.path.getsize on a file that is not there, ...)
build_raise(i, e) ==
    /\ i \in 1..Len(tasks)
    /\ tasks[i].pc = "download"
    /\ failure(i, e)
    /\ UNCHANGED <<ledger, listing, response>>

\* main.py:69-74: save_video_info up to its first await
save_begin(t, video_info) ==
    [t EXCEPT !.pc = "open",
              !.video_info = <<video_info>>,
              !.loaded = load_videos_info(ledger),
              !.videos = upserted(load_videos_info(ledger), video_info),
              !.pos = 0]

\* main.py:192-209 and 69-74: the download returned, the record is built
download_return(i, file_size, now) ==
    /\ i \in 1..Len(tasks)
    /\ tasks[i].pc = "download"
    /\ tasks[i].info[1].id # Absent
    /\ SetTask(i, save_begin(tasks[i], build_video_info(tasks[i].info[1], file_size, now)))
    /\ UNCHANGED <<download_progress, ledger, listing, response>>

(***************************************************************************)
(* save_video_info (main.py:68-75) after its load: aiofiles runs open,     *)
(* write and close in the executor, one await each.  Each task has its own *)
(* file object, with its own offset; a write(2) on the file is one step.   *)
(***************************************************************************)
\* main.py:74: open(VIDEOS_INFO_FILE, "w") creates or truncates the file
save_open(i) ==
    /\ i \in 1..Len(tasks)
    /\ tasks[i].pc = "open"
    /\ ledger' = [exists |-> TRUE, data |-> <<>>]
    /\ SetTask(i, [tasks[i] EXCEPT !.pc = "write"])
    /\ UNCHANGED <<download_progress, listing, response>>

\* main.py:74: open raised e (OSError); download_video catches it
save_open_raise(i, e) ==
    /\ i \in 1..Len(tasks)
    /\ tasks[i].pc = "open"
    /\ IF tasks[i].kind = "download"
       THEN failure(i, e)
       ELSE /\ SetTask(i, [tasks[i] EXCEPT !.pc = "raised"])
            /\ UNCHANGED download_progress
    /\ UNCHANGED <<ledger, listing, response>>

\* main.py:75: f.write(text) hands the text to the buffered file, which keeps
\* a text that fits its buffer until close (n = 0) and passes a longer one on
\* to the file in one write (n = Len(text))
save_write(i, n) ==
    /\ i \in 1..Len(tasks)
    /\ tasks[i].pc = "write"
    /\ n \in {0, Len(json_dumps(tasks[i].videos))}
    /\ ledger' = [exists |-> TRUE,
                  data |-> WriteAt(ledger.data, 0, SubSeq(json_dumps(tasks[i].videos), 1, n))]
    /\ SetTask(i, [tasks[i] EXCEPT !.pc = "close", !.pos = n])
    /\ UNCHANGED <<download_progress, listing, response>>

\* main.py:74, leaving `async with`: close flushes the rest at the file offset
save_close(i) ==
    /\ i \in 1..Len(tasks)
    /\ tasks[i].pc = "close"
    /\ LET text == json_dumps(tasks[i].videos)
       IN  ledger' = [exists |-> TRUE,
                      data |-> WriteAt(ledger.data, tasks[i].pos,
                                       SubSeq(text, tasks[i].pos + 1, Len(text)))]
    /\ SetTask(i, [tasks[i] EXCEPT !.pc = "returned"])
    /\ UNCHANGED <<download_progress, listing, response>>

(***************************************************************************)
(* What the environment supplies: requests, and what the engine answers.   *)
(***************************************************************************)
VideoIds == {<<"A">>, <<"B">>}

\* what extract_info(url, download=False) returns (main.py:112, 178)
Info(id, title, description) ==
    [id |-> id, title |-> title, ext |-> "mp4", duration |-> Some(0),
     uploader |-> Absent, description |-> description, thumbnail |-> Absent,
     formats |-> <<>>]

Infos ==
    {Info(Some(id), "T", Absent) : id \in VideoIds} \cup {Info(Absent, "T", Absent)}

\* the URLs the clients of Spec submit
WatchUrl == <<"youtube.com", "/", "?", "v=", "A", "&", "B">>
ShortUrl == <<"youtu.be", "/", "B">>
ShortUrlV == <<"youtu.be", "/", "B", "?", "v=", "A">>
NoIdUrl == <<"youtube.com", "/", "A">>
OtherSiteUrl == <<"A", "/", "?", "v=", "B">>
Urls == {WatchUrl, ShortUrl, ShortUrlV, NoIdUrl, OtherSiteUrl, <<>>}

\* the identifiers the clients of Spec poll
PollIds == VideoIds \cup {Unknown}

\* the error texts the engine and the file system raise in Spec
Errors == {<<"HTTP Error 429">>}

\* a progress tick; info_id is filled in by engine_tick
Tick(status, downloaded, total_bytes, total_bytes_estimate, speed) ==
    [status |-> status, info_id |-> Some(<<>>), downloaded_bytes |-> downloaded,
     total_bytes |-> total_bytes, total_bytes_estimate |-> total_bytes_estimate,
     speed |-> speed, eta |-> 0]

\* the tick the engine sends while it downloads for task t: its info_dict
\* carries the id the engine resolved
engine_tick(t, d) == [d EXCEPT !.info_id = t.info[1].id]

\* the ticks of Spec
Ticks ==
    {Tick("downloading", 1, Some(2), Absent, 0),
     Tick("downloading", 1, None, Absent, 0),
     Tick("downloading", 1, None, None, 0),
     Tick("finished", 2, Some(2), Absent, 0)}

FileSizes == {"1.00 MB"}
Dates == 1..MaxDate

\* no background task is running
Quiet == \A i \in 1..Len(tasks) : ended(tasks[i])

(***************************************************************************)
(* The steps of the engine and of the executor, for the answers allowed.   *)
(***************************************************************************)
ListingSteps(urls, infos, errors) ==
    \/ \E url \in urls, info \in infos : formats_return(url, info)
    \/ \E url \in urls, e \in errors : formats_fail(url, e)

DownloadSteps(infos, errors, ticks) ==
    \/ \E i \in 1..Len(tasks), info \in infos : resolve_return(i, info)
    \/ \E i \in 1..Len(tasks), e \in errors : resolve_raise(i, e)
    \/ \E i \in 1..Len(tasks), d \in ticks : hook_call(i, engine_tick(tasks[i], d))
    \/ \E i \in 1..Len(tasks), d \in ticks : hook_raise(i, engine_tick(tasks[i], d))
    \/ \E i \in 1..Len(tasks), e \in errors : download_raise(i, e)
    \/ \E i \in 1..Len(tasks), e \in errors : build_raise(i, e)
    \/ \E i \in 1..Len(tasks), size \in FileSizes, now \in Dates : download_return(i, size, now)

SaveSteps(errors) ==
    \/ \E i \in 1..Len(tasks) : save_open(i)
    \/ \E i \in 1..Len(tasks), e \in errors : save_open_raise(i, e)
    \/ \E i \in 1..Len(tasks) : \E n \in {0, Len(json_dumps(tasks[i].videos))} : save_write(i, n)
    \/ \E i \in 1..Len(tasks) : save_close(i)

(***************************************************************************)
(* Spec: every handler, any interleaving the event loop allows.            *)
(***************************************************************************)
Next ==
    \/ read_root
    \/ get_videos
    \/ \E video_id \in PollIds : get_progress(video_id)
    \/ \E url \in Urls : get_formats(url)
    \/ \E url \in Urls : download(url)
    \/ ListingSteps(Urls, Infos, Errors)
    \/ DownloadSteps(Infos, Errors, Ticks)
    \/ SaveSteps(Errors)

Spec == Init /\ [][Next]_vars

(***************************************************************************)
(* SpecPar: downloads submitted at any time, run concurrently.             *)
(***************************************************************************)
NextPar ==
    \/ \E url \in Urls : download(url)
    \/ DownloadSteps(Infos, Errors, Ticks)
    \/ SaveSteps(Errors)

SpecPar == Init /\ [][NextPar]_vars

(***************************************************************************)
(* SpecSeq: every handler; the client submits a download of WatchUrl or of *)
(* a URL that is refused when no download is running.                      *)
(***************************************************************************)
SeqUrls == {WatchUrl, NoIdUrl, OtherSiteUrl}
SeqInfos == {Info(Some(id), "T", Absent) : id \in VideoIds}
SeqErrors == {<<"HTTP Error 429">>}
SeqTicks ==
    {Tick("downloading", 1, Some(2), Absent, 0),
     Tick("downloading", 1, Absent, None, 0),
     Tick("finished", 2, Some(2), Absent, 0)}

NextSeq ==
    \/ read_root
    \/ get_videos
    \/ \E video_id \in PollIds : get_progress(video_id)
    \/ \E url \in SeqUrls : listing = {} /\ get_formats(url)
    \/ \E url \in SeqUrls : Quiet /\ download(url)
    \/ ListingSteps(SeqUrls, SeqInfos, SeqErrors)
    \/ DownloadSteps(SeqInfos, SeqErrors, SeqTicks)
    \/ SaveSteps(SeqErrors)


(***************************************************************************)
(* SpecUrl: one request to a fresh server, with any URL of at most         *)
(* MaxUrlLen tokens; the engine fails it.                                  *)
(***************************************************************************)
AllUrls == SeqsUpTo(UrlTokens, MaxUrlLen)

Fresh == tasks = <<>> /\ listing = {}

NextUrl ==
    \/ Fresh /\ \E url \in AllUrls : download(url)
    \/ Fresh /\ \E url \in AllUrls : get_formats(url)
    \/ \E e \in SeqErrors : resolve_raise(1, e)
    \/ \E url \in listing, e \in SeqErrors : formats_fail(url, e)

SpecUrl == Init /\ [][NextUrl]_vars

(***************************************************************************)
(* SpecErr: one download, which fails with any error text of at most       *)
(* MaxErrLen tokens, before or after the metadata is resolved.             *)
(***************************************************************************)
AllErrors == SeqsUpTo(ErrTokens, MaxErrLen)

NextErr ==
    \/ Fresh /\ download(WatchUrl)
    \/ \E info \in SeqInfos : resolve_return(1, info)
    \/ \E e \in AllErrors : resolve_raise(1, e)
    \/ \E e \in AllErrors : download_raise(1, e)

SpecErr == Init /\ [][NextErr]_vars

(***************************************************************************)
(* SpecHook: one download, during which the engine sends any ticks with    *)
(* byte counts up to MaxBytes.                                             *)
(***************************************************************************)
Counts == {Absent, None} \cup {Some(n) : n \in 0..MaxBytes}

AllTicks ==
    {[Tick(status, downloaded, total_bytes, total_bytes_estimate, 0)
        EXCEPT !.info_id = info_id] :
        status \in {"downloading", "finished"},
        downloaded \in 0..MaxBytes,
        total_bytes \in Counts,
        total_bytes_estimate \in {Absent, None, Some(0), Some(MaxBytes)},
        info_id \in {Absent, Some(<<>>)}}
    \cup {Tick("error", 0, Absent, Absent, 0)}

\* the tick as progress_hook gets it: an info_dict, when there is one, has the id
hook_tick(t, d) == IF d.info_id = Absent THEN d ELSE engine_tick(t, d)

NextHook ==
    \/ Fresh /\ download(WatchUrl)
    \/ \E info \in SeqInfos : resolve_return(1, info)
    \/ \E d \in AllTicks : hook_call(1, hook_tick(tasks[1], d))
    \/ \E d \in AllTicks : hook_raise(1, hook_tick(tasks[1], d))

SpecHook == Init /\ [][NextHook]_vars

(***************************************************************************)
(* SpecFormats: the first format listing of a server, of WatchUrl, for     *)
(* which the engine reports any list of at most MaxFormats formats.        *)
(***************************************************************************)
Labels ==
    {Absent, Some(<<"unknown">>),
     Some(<<"1920", "x", "1080">>), Some(<<"1280", "x", "720">>), Some(<<"1280", "x", "?">>),
     Some(<<"720", "p">>), Some(<<"480", "p">>)}

\* a format with a video stream, or an audio stream alone
FormatKinds ==
    [resolution : Labels, vcodec : {Some("avc1")}]
        \cup {[resolution |-> Some(<<"audio only">>), vcodec |-> Some("none")]}

\* the engine gives each format its own format_id
AllFormatLists ==
    {[i \in 1..Len(kinds) |->
        [format_id |-> i, resolution |-> kinds[i].resolution, vcodec |-> kinds[i].vcodec]] :
        kinds \in SeqsUpTo(FormatKinds, MaxFormats)}

AllListings == {[Info(Some(<<"A">>), "T", Absent) EXCEPT !.formats = fs] : fs \in AllFormatLists}

NextFormats ==
    \/ Fresh /\ response = [status |-> "none"] /\ get_formats(WatchUrl)
    \/ \E info \in AllListings : formats_return(WatchUrl, info)
    \/ \E e \in SeqErrors : formats_fail(WatchUrl, e)

SpecFormats == Init /\ [][NextFormats]_vars

(***************************************************************************)
(* SpecStore: save_video_info called with any record, the calls running    *)
(* concurrently, on a ledger file that an earlier run of the program left. *)
(* SpecStoreSeq: the same, each call made when the one before has ended.   *)
(***************************************************************************)
Record(id, now) == build_video_info(Info(Some(id), "T", Absent), "1.00 MB", now)

StoreRecords == {Record(id, now) : id \in VideoIds, now \in Dates}

\* what an earlier run left: no file, a complete ledger, the empty file of a
\* run that was killed between open and close, or a shorter ledger written
\* over a longer one
InitLedgers ==
    {[exists |-> FALSE, data |-> <<>>]} \cup
    {[exists |-> TRUE, data |-> data] :
        data \in {<<>>,
                  json_dumps(<<Record(<<"A">>, 1)>>) \o <<RB>>,
                  json_dumps(<<Record(<<"A">>, 1)>>),
                  json_dumps(<<Record(<<"A">>, 1), Record(<<"B">>, 1)>>)}}

InitStore ==
    /\ download_progress = <<>>
    /\ ledger \in InitLedgers
    /\ tasks = <<>>
    /\ listing = {}
    /\ response = [status |-> "none"]

upsert_task ==
    [kind |-> "upsert", pc |-> "call", url |-> <<>>, info |-> <<>>,
     video_info |-> <<>>, loaded |-> <<>>, videos |-> <<>>, pos |-> 0]

\* a call of save_video_info(video_info), up to its first await (main.py:68-74)
upsert_call(video_info) ==
    /\ Len(tasks) < MaxUpserts
    /\ tasks' = Append(tasks, save_begin(upsert_task, video_info))
    /\ UNCHANGED <<download_progress, ledger, listing, response>>

NextStore ==
    \/ \E video_info \in StoreRecords : upsert_call(video_info)
    \/ SaveSteps(SeqErrors)
    \/ get_videos
    \/ read_root

SpecStore == InitStore /\ [][NextStore]_vars

NextStoreSeq ==
    \/ \E video_info \in StoreRecords : Quiet /\ upsert_call(video_info)
    \/ SaveSteps(SeqErrors)
    \/ get_videos
    \/ read_root

SpecStoreSeq == InitStore /\ [][NextStoreSeq]_vars

\* SpecFail: one download_video run on a fresh server that may fail at any
\* step with any error text
NextFail ==
    \/ Fresh /\ download(WatchUrl)
    \/ \E info \in SeqInfos : resolve_return(1, info)
    \/ \E e \in AllErrors : resolve_raise(1, e)
    \/ \E d \in SeqTicks : hook_call(1, engine_tick(tasks[1], d))
    \/ \E d \in SeqTicks : hook_raise(1, engine_tick(tasks[1], d))
    \/ \E e \in AllErrors : download_raise(1, e)
    \/ \E e \in AllErrors : build_raise(1, e)
    \/ \E size \in FileSizes, now \in Dates : download_return(1, size, now)
    \/ save_open(1)
    \/ \E e \in AllErrors : save_open_raise(1, e)
    \/ Len(tasks) >= 1 /\ \E n \in {0, Len(json_dumps(tasks[1].videos))} : save_write(1, n)
    \/ save_close(1)

SpecFail == Init /\ [][NextFail]_vars

\* SpecTwo: two concurrent downloads of two short links with different ids
ShortUrlA == <<"youtu.be", "/", "A">>
TwoUrls == {ShortUrlA, ShortUrl}

NextTwo ==
    \/ \E url \in TwoUrls :
           /\ \A j \in 1..Len(tasks) : tasks[j].url # url
           /\ download(url)
    \/ DownloadSteps(SeqInfos, SeqErrors, SeqTicks)
    \/ SaveSteps(SeqErrors)

SpecTwo == Init /\ [][NextTwo]_vars

\* SpecSeq starts without a ledger or with the ledger of an earlier run
InitSeq ==
    /\ download_progress = <<>>
    /\ ledger \in {[exists |-> FALSE, data |-> <<>>],
                   [exists |-> TRUE, data |-> json_dumps(<<Record(<<"B">>, 1)>>)]}
    /\ tasks = <<>>
    /\ listing = {}
    /\ response = [status |-> "none"]

SpecSeq == InitSeq /\ [][NextSeq]_vars

(***************************************************************************)
(* Properties.                                                             *)
(***************************************************************************)
\* the records of a list that have the id
WithId(videos, id) == {i \in 1..Len(videos) : videos[i].id = id}

\* the URL names none of the two domains
NoDomain(url) == ~Contains(url, "youtube.com") /\ ~Contains(url, "youtu.be")

NoDomainUrls == {url \in AllUrls : NoDomain(url)}

\* C1: a request to /video-formats/ or /download/ whose URL contains neither
\* 'youtube.com' nor 'youtu.be' is answered with the validation error, and
\* adds no task, starts no engine call and leaves the progress table and the
\* ledger as they are.
C1_InvalidUrlRefused ==
    [][\A url \in NoDomainUrls :
          (download(url) \/ get_formats(url)) =>
              /\ response' = InvalidUrlResponse
              /\ UNCHANGED <<download_progress, ledger, tasks, listing>>]_vars

\* a request with such a URL has been answered
C1_Witness ==
    /\ response = InvalidUrlResponse
    /\ tasks = <<>>
    /\ listing = {}
    /\ DOMAIN download_progress = {}

\* C2: whatever save_video_info calls have run or are running, the list
\* load_videos_info returns holds at most one record per id.
C2_OneRecordPerId ==
    LET videos == load_videos_info(ledger)
    IN  \A i, j \in 1..Len(videos) : videos[i].id = videos[j].id => i = j

\* two calls ran interleaved (the second loaded before the first had written),
\* one of them for an id the ledger held, and the ledger holds records
C2_Witness ==
    /\ Len(tasks) = 2
    /\ tasks[1].pc = "returned" /\ tasks[2].pc = "returned"
    /\ tasks[2].loaded = tasks[1].loaded
    /\ WithId(tasks[1].loaded, tasks[1].video_info[1].id) # {}
    /\ load_videos_info(ledger) # <<>>

\* C3: a second save_video_info(r) that runs right after a first one has
\* ended leaves the ledger the first one left, with exactly one record of
\* r.id, which is r.
C3_UpsertIdempotent ==
    \A j \in 2..Len(tasks) :
        (/\ j = Len(tasks)
         /\ tasks[j - 1].pc = "returned"
         /\ tasks[j].pc = "returned"
         /\ tasks[j].video_info = tasks[j - 1].video_info)
        => LET videos == load_videos_info(ledger)
               r == tasks[j].video_info[1]
           IN  /\ videos = tasks[j - 1].videos
               /\ ledger.data = json_dumps(tasks[j - 1].videos)
               /\ Cardinality(WithId(videos, r.id)) = 1
               /\ \E i \in 1..Len(videos) : videos[i] = r

\* the same record was saved twice in sequence, into a ledger that held
\* another record too
C3_Witness ==
    /\ Len(tasks) = 2
    /\ tasks[1].pc = "returned" /\ tasks[2].pc = "returned"
    /\ tasks[2].video_info = tasks[1].video_info
    /\ Len(tasks[1].loaded) = 2

\* C4: right after a save_video_info(r) has ended, no other call being under
\* way, load_videos_info returns a list that holds r.
C4_LoadAfterUpsert ==
    [][\A i \in 1..Len(tasks) :
          (save_close(i) /\ \A j \in 1..Len(tasks') : ended(tasks'[j])) =>
              \E k \in 1..Len(load_videos_info(ledger')) :
                  load_videos_info(ledger')[k] = tasks[i].video_info[1]]_vars

\* the height the claim gives a resolution label
ClaimHeight(label) ==
    CASE label = <<"1920", "x", "1080">> -> 1080
      [] label = <<"1280", "x", "720">> -> 720
      [] label = <<"720", "p">> -> 720
      [] label = <<"480", "p">> -> 480
      [] label = <<"unknown">> -> 0

\* C5: a format listing that succeeds lists formats with video only, by
\* non-increasing height ('unknown' counting as 0), formats of equal height
\* in the order the engine reported them (the order of their format_id).
C5_FormatsRanked ==
    (response.status = "success" /\ "data" \in DOMAIN response) =>
        LET formats == response.data.formats
        IN  /\ \A i \in 1..Len(formats) :
                  /\ formats[i].resolution # Some(<<"audio only">>)
                  /\ formats[i].vcodec # Some("none")
            /\ \A i, j \in 1..Len(formats) :
                  i < j =>
                      LET hi == ClaimHeight(formats[i].resolution.x)
                          hj == ClaimHeight(formats[j].resolution.x)
                      IN  hi > hj \/ (hi = hj /\ formats[i].format_id < formats[j].format_id)

\* the engine reported 1080, 720p, unknown, 480p; the listing is 1080, 720p, 480p, unknown
C5_Witness ==
    /\ response.status = "success"
    /\ "data" \in DOMAIN response
    /\ Len(response.data.formats) = 4
    /\ [i \in 1..4 |-> response.data.formats[i].resolution.x] =
           <<<<"1920", "x", "1080">>, <<"720", "p">>, <<"480", "p">>, <<"unknown">>>>
    /\ [i \in 1..4 |-> response.data.formats[i].format_id] = <<1, 2, 4, 3>>

\* the rules of the claim, in its order: the tokens that match, the message
ClaimRules ==
    <<[match |-> {"HTTP Error 429"}, message |-> <<"rate limited">>],
      [match |-> {"HTTP Error 403"}, message |-> <<"access denied">>],
      [match |-> {"HTTP Error 404"}, message |-> <<"video missing">>],
      [match |-> {"Unable to download API page", "timed out", "Timed Out", "WinError 10060"},
       message |-> <<"network timeout">>],
      [match |-> {"This video is unavailable"}, message |-> <<"unavailable, private or deleted">>],
      [match |-> {"Video unavailable"}, message |-> <<"unavailable, deleted or private">>],
      [match |-> {"Sign in"}, message |-> <<"login required">>],
      [match |-> {"The uploader has not made this video available"},
       message |-> <<"not available in your country">>],
      [match |-> {"socket", "Socket", "network"}, message |-> <<"unstable connection">>],
      [match |-> {"DNS"}, message |-> <<"DNS failure">>]>>

RuleMatches(n, text) == \E i \in 1..Len(text) : text[i] \in ClaimRules[n].match

ClaimMessage(text) ==
    LET matching == {n \in 1..Len(ClaimRules) : RuleMatches(n, text)}
    IN  IF matching = {} THEN text
        ELSE ClaimRules[CHOOSE n \in matching : \A m \in matching : n <= m].message

\* C6: the message of an error entry is that of the first rule of the table
\* that matches the raw error text, and the raw text when no rule matches.
C6_FirstMatchWins ==
    \A id \in DOMAIN download_progress :
        download_progress[id].status = "error" =>
            /\ download_progress[id].error = ClaimMessage(download_progress[id].original_error)
            /\ (Contains(download_progress[id].original_error, "HTTP Error 429")
                    => download_progress[id].error = <<"rate limited">>)

\* a text with 'DNS' and then 'HTTP Error 429' was classified
C6_Witness ==
    \E id \in DOMAIN download_progress :
        /\ download_progress[id].status = "error"
        /\ download_progress[id].original_error = <<"DNS", "HTTP Error 429">>
        /\ download_progress[id].error = <<"rate limited">>

\* the total a tick reports, 0 when it reports none
ClaimTotal(d) ==
    IF d.total_bytes.tag = "some" /\ d.total_bytes.x > 0 THEN d.total_bytes.x
    ELSE IF d.total_bytes_estimate.tag = "some" /\ d.total_bytes_estimate.x > 0
         THEN d.total_bytes_estimate.x
         ELSE 0

\* p hundredths of a percent is downloaded / total * 100 rounded to 2 decimals
Rounded2(p, downloaded, total) ==
    LET diff == p * total - downloaded * 10000
    IN  2 * (IF diff < 0 THEN -diff ELSE diff) <= total

ClaimTicks ==
    {d \in AllTicks : \/ d.status = "finished"
                      \/ d.status = "downloading" /\ ClaimTotal(d) > 0}

\* C7: a 'downloading' tick with a known total sets the entry of its video
\* id to status downloading and the rounded percentage; a 'finished' tick
\* sets it to progress 100, status finished.
C7_ProgressTicks ==
    [][\A d \in ClaimTicks :
          (/\ Len(tasks) >= 1
           /\ tasks[1].info # <<>>
           /\ hook_call(1, hook_tick(tasks[1], d)))
          => LET id == IF d.info_id = Absent THEN Unknown ELSE tasks[1].info[1].id.x
                 entry == download_progress'[id]
             IN  IF d.status = "finished"
                 THEN entry = [progress |-> 10000, status |-> "finished"]
                 ELSE /\ entry.status = "downloading"
                      /\ Rounded2(entry.progress, d.downloaded_bytes, ClaimTotal(d))]_vars

\* a tick of half the total has been recorded as 50.00
C7_Witness ==
    \E id \in DOMAIN download_progress :
        /\ download_progress[id].status = "downloading"
        /\ download_progress[id].progress = 5000

\* the part of url after the last tok, the part of text before the first tok
AfterLast(url, tok) ==
    IF \E k \in 1..Len(url) : url[k] = tok
    THEN LET at == CHOOSE k \in 1..Len(url) :
                      url[k] = tok /\ \A m \in (k + 1)..Len(url) : url[m] # tok
         IN  SubSeq(url, at + 1, Len(url))
    ELSE url

UpTo(text, tok) ==
    IF \E k \in 1..Len(text) : text[k] = tok
    THEN SubSeq(text, 1, (CHOOSE k \in 1..Len(text) :
                              text[k] = tok /\ \A m \in 1..(k - 1) : text[m] # tok) - 1)
    ELSE text

\* the identifier the claim derives from an accepted URL
ClaimId(url) ==
    IF Contains(url, "youtube.com") /\ Contains(url, "v=")
    THEN UpTo(AfterLast(url, "v="), "&")
    ELSE UpTo(AfterLast(url, "/"), "?")

\* the ProgressTable keys download i of tasks writes after it was accepted
KeysOf(i) ==
    {error_video_id(tasks[i].url)} \cup
    (IF tasks[i].info # <<>> /\ tasks[i].info[1].id # Absent
     THEN {tasks[i].info[1].id.x} ELSE {})

\* no other download writes the entry of the id of download i
Alone(i) ==
    \A j \in 1..Len(tasks) :
        j # i => /\ url_video_id(tasks[i].url) \notin KeysOf(j)
                 /\ url_video_id(tasks[j].url) # url_video_id(tasks[i].url)

PollsEarly(i) ==
    progress_of(download_progress, url_video_id(tasks[i].url)).status
        \in {"queued", "starting"}

C9_SecondRunReplaces ==
    \A j \in 2..Len(tasks) :
        (/\ j = Len(tasks)
         /\ tasks[j - 1].kind = "download" /\ tasks[j].kind = "download"
         /\ tasks[j - 1].pc = "returned" /\ tasks[j].pc = "returned"
         /\ tasks[j - 1].url = tasks[j].url
         /\ tasks[j - 1].video_info[1].id = tasks[j].video_info[1].id)
        => LET videos == load_videos_info(ledger)
               r == tasks[j].video_info[1]
               before == tasks[j - 1].loaded
           IN  /\ Cardinality(WithId(videos, r.id)) = 1
               /\ \A k \in WithId(videos, r.id) : videos[k] = r
               /\ \A k \in 1..Len(before) :
                      before[k].id # r.id => \E m \in 1..Len(videos) : videos[m] = before[k]

\* both runs returned, the second built other fields than the first, and a
\* record of another id was there before
C9_Witness ==
    /\ Len(tasks) = 2
    /\ tasks[1].pc = "returned" /\ tasks[2].pc = "returned"
    /\ tasks[1].url = tasks[2].url
    /\ tasks[1].video_info[1].id = tasks[2].video_info[1].id
    /\ tasks[1].video_info # tasks[2].video_info
    /\ \E k \in 1..Len(tasks[1].loaded) : tasks[1].loaded[k].id # tasks[1].video_info[1].id
    /\ tasks[2].video_info[1] = load_videos_info(ledger)[2]

\* C10: while a save_video_info is between opening the file and closing it,
\* load_videos_info returns the list from before the call or the list the
\* call writes.
C10_AtomicRewrite ==
    \A i \in 1..Len(tasks) :
        tasks[i].pc \in {"write", "close"} =>
            load_videos_info(ledger) \in {tasks[i].loaded, tasks[i].videos}

\* C11: when download_video has failed, the error entry is under the id
\* POST /download/ returned for the URL (ClaimId of the URL).
C11_ErrorKeyIsReturnedId ==
    \A i \in 1..Len(tasks) :
        tasks[i].pc = "failed" =>
            progress_of(download_progress, ClaimId(tasks[i].url)).status = "error"

\* the step is download_video 1 catching an exception of text e
Caught(e) ==
    \/ resolve_raise(1, e)
    \/ download_raise(1, e)
    \/ build_raise(1, e)
    \/ save_open_raise(1, e)
    \/ e = TypeErrorText /\ \E d \in SeqTicks : hook_raise(1, engine_tick(tasks[1], d))

\* C12: download_video never passes an exception on; the step at which it
\* fails leaves an entry with status error, progress 0, the mapped message
\* and the raw text of the exception it caught, the run ends without a
\* record and the ledger is as before.
C12_FailureBecomesEntry ==
    [][/\ \A i \in 1..Len(tasks') : tasks'[i].pc # "raised"
       /\ (Len(tasks) >= 1 /\ ~ended(tasks[1]) /\ tasks'[1].pc # "returned"
           /\ ended(tasks'[1]))
          => /\ tasks'[1].pc = "failed"
             /\ ledger' = ledger
             /\ \E id \in {k \in DOMAIN download_progress' :
                               download_progress'[k].status = "error"} :
                   \E e \in {download_progress'[id].original_error} \cap
                                (AllErrors \cup {TypeErrorText}) :
                       /\ Caught(e)
                       /\ download_progress'[id] =
                              [progress |-> 0, status |-> "error",
                               error |-> ClaimMessage(e), original_error |-> e]]_vars

\* the run failed when it opened the ledger, and the raw text was mapped
C12_Witness ==
    /\ Len(tasks) = 1
    /\ tasks[1].pc = "failed"
    /\ tasks[1].video_info # <<>>
    /\ \E id \in DOMAIN download_progress :
           /\ download_progress[id].status = "error"
           /\ download_progress[id].original_error = <<"Sign in", "other">>
           /\ download_progress[id].error = <<"login required">>

\* C13: within the one download_video run of SpecFail, an entry whose
\* status is finished or error keeps that status in every later step of the
\* coroutine (the file-size lookup, the upsert, the failure handler).
C13_FinishedAndErrorTerminal ==
    [][\A id \in DOMAIN download_progress :
          (download_progress[id].status \in {"finished", "error"} /\ tasks' # tasks) =>
              download_progress'[id].status = download_progress[id].status]_vars

\* C14: when two save_video_info calls of records with different ids that
\* loaded the same ledger have both ended, the ledger is the list one of
\* them wrote.
C14_LastWriterWins ==
    (/\ Len(tasks) = 2
     /\ tasks[1].pc = "returned" /\ tasks[2].pc = "returned"
     /\ tasks[1].video_info[1].id # tasks[2].video_info[1].id
     /\ tasks[1].loaded = tasks[2].loaded)
    => load_videos_info(ledger) \in {tasks[1].videos, tasks[2].videos}

\* the ProgressTable keys written so far on behalf of download i: the
\* queued entry, the starting, progress and finished entries, the error entry
WrittenFor(i) ==
    {url_video_id(tasks[i].url)} \cup
    (IF tasks[i].info # <<>> THEN {info_video_id(tasks[i].info[1])} ELSE {}) \cup
    (IF tasks[i].pc = "failed" THEN {error_video_id(tasks[i].url)} ELSE {})

\* the engine resolved the id the URL of download i names, if it resolved one
TrueId(i) ==
    tasks[i].info = <<>> \/ info_video_id(tasks[i].info[1]) = url_video_id(tasks[i].url)

\* C15: two downloads of different URLs with different video ids write no
\* ProgressTable key in common, and none writes the key the client of the
\* other polls.
C15_IndependentKeys ==
    \A i, j \in 1..Len(tasks) :
        (/\ i # j
         /\ tasks[i].url # tasks[j].url
         /\ url_video_id(tasks[i].url) # url_video_id(tasks[j].url)
         /\ TrueId(i) /\ TrueId(j))
        => WrittenFor(i) \cap (WrittenFor(j) \cup {url_video_id(tasks[j].url)}) = {}

\* C16: the progress of every ProgressTable entry is between 0 and 100.
C16_ProgressInRange ==
    \A id \in DOMAIN download_progress :
        /\ download_progress[id].progress >= 0
        /\ download_progress[id].progress <= 10000

\* the 'downloading' ticks that report no total: each of total_bytes and
\* total_bytes_estimate is absent, null or 0
UnknownTotalTicks ==
    {d \in AllTicks : /\ d.status = "downloading"
                      /\ d.total_bytes \in {Absent, None, Some(0)}
                      /\ d.total_bytes_estimate \in {Absent, None, Some(0)}}

\* C17: progress_hook raises on no 'downloading' tick without a total.
C17_UnknownTotalSkipped ==
    [][\A d \in UnknownTotalTicks :
          (Len(tasks) >= 1 /\ tasks[1].info # <<>>)
              => ~hook_raise(1, hook_tick(tasks[1], d))]_vars

\* the records of a file whose text is the JSON text of a list of records,
\* in file order, and the empty list for every other file
ClaimLoad(file) ==
    LET data == file.data
        n == Len(data) - 2
    IN  IF file.exists /\ n >= 0 /\ \A i \in 2..(n + 1) : data[i].v # <<>>
        THEN LET videos == [i \in 1..n |-> data[i + 1].v[1]]
             IN  IF data = json_dumps(videos) THEN videos ELSE <<>>
        ELSE <<>>

\* C18: GET /videos/ and GET /, which return what load_videos_info returns,
\* leave the ledger file as it is and return the records of the file in
\* file order, or the empty list when there is no file or no parseable text.
C18_LoadTotalAndPure ==
    [][(get_videos \/ read_root) =>
          /\ ledger' = ledger
          /\ response'.videos = ClaimLoad(ledger)
          /\ load_videos_info(ledger) = ClaimLoad(ledger)]_vars

\* a file with text after the end of the list was read as the empty list
C18_Witness ==
    /\ response = [videos |-> <<>>]
    /\ ledger.exists
    /\ \E i \in 1..Len(ledger.data) : ledger.data[i].k = "obj"
    /\ ~json_ok(ledger.data)

\* the records of videos whose id is not id, in their order
Others(videos, id) == SelectSeq(videos, LAMBDA v : v.id # id)

\* C19: when a save_video_info(r) has ended, no other call being under way,
\* load_videos_info returns the records of other ids it returned before the
\* call, in their order, followed by r.
C19_UpsertFrame ==
    [][\A i \in 1..Len(tasks) :
          (save_close(i) /\ \A j \in 1..Len(tasks') : ended(tasks'[j])) =>
              LET r == tasks[i].video_info[1]
              IN  load_videos_info(ledger') = Others(tasks[i].loaded, r.id) \o <<r>>]_vars

\* the step is a step of save_video_info inside download_video run i, which
\* resolved the metadata, downloaded and built the record
SavesRecord(i) ==
    /\ tasks[i].kind = "download"
    /\ tasks[i].info # <<>>
    /\ tasks[i].video_info # <<>>
    /\ \/ save_open(i)
       \/ \E n \in {0, Len(json_dumps(tasks[i].videos))} : save_write(i, n)
       \/ save_close(i)

\* C20: the ledger file changes only in a step of the save of a
\* download_video run that resolved, downloaded and built its record; no
\* step of a run that has not built its record changes it (so a run that
\* fails before leaves it as it was), and no request handler does.
C20_OnlySuccessfulRunsWrite ==
    [][/\ ledger' # ledger => \E i \in 1..Len(tasks) : SavesRecord(i)
       /\ \A i \in 1..Len(tasks) :
              (tasks[i].video_info = <<>> /\ tasks'[i] # tasks[i]) => ledger' = ledger]_vars

\* after a run that wrote its record, a second run failed after its
\* metadata were resolved; the ledger is what the first run wrote
C20_Witness ==
    /\ Len(tasks) = 2
    /\ tasks[1].pc = "returned"
    /\ tasks[2].pc = "failed"
    /\ tasks[2].info # <<>>
    /\ tasks[2].video_info = <<>>
    /\ ledger.data = json_dumps(tasks[1].videos)
    /\ \E k \in 1..Len(tasks[1].videos) : tasks[1].videos[k] = tasks[1].video_info[1]

====
